---- MODULE Spec2Model ----
(***************************************************************************)
(* Model of policy_generator/convertor.py: the permission-code decoder     *)
(* (parse_json_from_permission_code,                                       *)
(* permission_to_policy_actions_and_conditions) and the matrix compiler    *)
(* (generate_policies_csv).                                                *)
(*                                                                         *)
(* Python strings that the code inspects character by character are        *)
(* modelled as sequences of one-character strings: "GC*" is                *)
(* <<"G", "C", "*">>.                                                      *)
(***************************************************************************)
EXTENDS Integers, Sequences, FiniteSets, TLC

VARIABLES
    call,                      \* arguments of one call of permission_to_policy_actions_and_conditions
    ret,                       \* outcome of that call
    roles_df,                  \* the DataFrame read from the input file
    roles_corrected,           \* trimmed role headers
    r,                         \* index of the row the outer loop is at
    c,                         \* index of the role the inner loop is at
    policies_with_conditions,  \* accumulated policy tuples
    origin,                    \* history: <<row, role index>> each accumulated tuple came from
    printed,                   \* lines written to standard output
    policy_csv,                \* rows of the output file
    written,                   \* whether the output file has been written
    pc,                        \* control position
    err                        \* exception that left generate_policies_csv, or "none"

vars == <<call, ret, roles_df, roles_corrected, r, c, policies_with_conditions,
          origin, printed, policy_csv, written, pc, err>>

-----------------------------------------------------------------------------
(* Bounds *)

MaxCodeLen == 4         \* base codes over the full alphabet
MaxGrantLen == 6        \* base codes over the alphabet of one action and its qualifiers
MaxPayloadBaseLen == 2  \* base codes that are combined with an attribute payload
MaxRows == 2            \* rows of the matrix

-----------------------------------------------------------------------------
(* Python string primitives *)

Whitespace == {" "}

\* sub in s
Contains(sub, s) ==
    \E i \in 1..(Len(s) - Len(sub) + 1) : SubSeq(s, i, i + Len(sub) - 1) = sub

\* s.index(ch); 0 stands for the ValueError of a missing character
Index(s, ch) ==
    IF \E i \in 1..Len(s) : s[i] = ch
    THEN CHOOSE i \in 1..Len(s) : s[i] = ch /\ \A j \in 1..(i - 1) : s[j] # ch
    ELSE 0

\* s.strip()
strip(s) ==
    LET keep == {i \in 1..Len(s) : s[i] \notin Whitespace}
    IN  IF keep = {} THEN <<>>
        ELSE LET lo == CHOOSE i \in keep : \A j \in keep : i <= j
                 hi == CHOOSE i \in keep : \A j \in keep : i >= j
             IN  SubSeq(s, lo, hi)

-----------------------------------------------------------------------------
(* json.loads, on texts over the characters { } " : , space and letters.   *)
(* A parsed string is [t |-> "str", v |-> characters]; a parsed object is  *)
(* [t |-> "obj", v |-> sequence of <<key, value>>] in insertion order, a   *)
(* repeated key keeping its place and taking the last value.               *)

JsonFail == [ok |-> FALSE, val |-> <<>>, next |-> 0]

SkipWs(s, i) ==
    IF \E j \in i..Len(s) : s[j] \notin Whitespace
    THEN CHOOSE j \in i..Len(s) :
            s[j] \notin Whitespace /\ \A k \in i..(j - 1) : s[k] \in Whitespace
    ELSE Len(s) + 1

CharAt(s, i) == IF i \in 1..Len(s) THEN s[i] ELSE "<eof>"

\* a string literal opening at s[i]
ParseString(s, i) ==
    IF CharAt(s, i) # "\"" THEN JsonFail
    ELSE IF \E j \in (i + 1)..Len(s) : s[j] = "\""
         THEN LET j == CHOOSE j \in (i + 1)..Len(s) :
                          s[j] = "\"" /\ \A k \in (i + 1)..(j - 1) : s[k] # "\""
              IN  [ok |-> TRUE,
                   val |-> [t |-> "str", v |-> SubSeq(s, i + 1, j - 1)],
                   next |-> j + 1]
         ELSE JsonFail

\* dict[key] = value
DictSet(items, key, value) ==
    IF \E k \in 1..Len(items) : items[k][1] = key
    THEN [k \in 1..Len(items) |->
             IF items[k][1] = key THEN <<key, value>> ELSE items[k]]
    ELSE Append(items, <<key, value>>)

RECURSIVE ParseValue(_, _), ParseMembers(_, _, _)

\* the members of an object, the first key opening at s[i]
ParseMembers(s, i, items) ==
    LET key == ParseString(s, i)
    IN  IF ~key.ok THEN JsonFail
        ELSE LET colon == SkipWs(s, key.next)
             IN  IF CharAt(s, colon) # ":" THEN JsonFail
                 ELSE LET value == ParseValue(s, SkipWs(s, colon + 1))
                      IN  IF ~value.ok THEN JsonFail
                          ELSE LET items2 == DictSet(items, key.val.v, value.val)
                                   after == SkipWs(s, value.next)
                               IN  IF CharAt(s, after) = "}"
                                   THEN [ok |-> TRUE,
                                         val |-> [t |-> "obj", v |-> items2],
                                         next |-> after + 1]
                                   ELSE IF CharAt(s, after) = ","
                                   THEN ParseMembers(s, SkipWs(s, after + 1), items2)
                                   ELSE JsonFail

\* a value opening at s[i]: a string or an object
ParseValue(s, i) ==
    IF CharAt(s, i) = "\"" THEN ParseString(s, i)
    ELSE IF CharAt(s, i) = "{"
    THEN LET first == SkipWs(s, i + 1)
         IN  IF CharAt(s, first) = "}"
             THEN [ok |-> TRUE, val |-> [t |-> "obj", v |-> <<>>], next |-> first + 1]
             ELSE ParseMembers(s, first, <<>>)
    ELSE JsonFail

\* json.loads(s); ok = FALSE stands for json.JSONDecodeError
json_loads(s) ==
    LET value == ParseValue(s, SkipWs(s, 1))
    IN  IF value.ok /\ SkipWs(s, value.next) > Len(s)
        THEN [ok |-> TRUE, val |-> value.val]
        ELSE [ok |-> FALSE, val |-> <<>>]

-----------------------------------------------------------------------------
(* The decoder *)

\* the str "none"
NoneAttrs == [t |-> "str", v |-> <<"n", "o", "n", "e">>]

\* parse_json_from_permission_code splitting at the last '{' instead of the first
parse_json_at_last_brace(permission_code) ==
    LET braces == {i \in 1..Len(permission_code) : permission_code[i] = "{"}
    IN  IF braces = {}
        THEN [ok |-> TRUE, code |-> permission_code, attrs |-> NoneAttrs]
        ELSE LET json_start == CHOOSE i \in braces : \A j \in braces : j <= i
                 json_dict == json_loads(SubSeq(permission_code, json_start,
                                                Len(permission_code)))
             IN  IF json_dict.ok
                 THEN [ok |-> TRUE,
                       code |-> SubSeq(permission_code, 1, json_start - 1),
                       attrs |-> json_dict.val]
                 ELSE [ok |-> FALSE, code |-> permission_code, attrs |-> NoneAttrs]

\* parse_json_from_permission_code returning the whole code instead of the cleaned one
parse_json_keeping_payload(permission_code) ==
    LET json_start == Index(permission_code, "{")
    IN  IF json_start = 0
        THEN [ok |-> TRUE, code |-> permission_code, attrs |-> NoneAttrs]
        ELSE LET json_dict == json_loads(SubSeq(permission_code, json_start,
                                                Len(permission_code)))
             IN  IF json_dict.ok
                 THEN [ok |-> TRUE, code |-> permission_code, attrs |-> json_dict.val]
                 ELSE [ok |-> FALSE, code |-> permission_code, attrs |-> NoneAttrs]

\* ok = FALSE stands for the ValueError("Invalid JSON in permission code")
parse_json_from_permission_code(permission_code) ==
    LET json_start == Index(permission_code, "{")
    IN  IF json_start = 0
        THEN [ok |-> TRUE, code |-> permission_code, attrs |-> NoneAttrs]
        ELSE LET json_str == SubSeq(permission_code, json_start, Len(permission_code))
                 permission_code_clean == SubSeq(permission_code, 1, json_start - 1)
                 json_dict == json_loads(json_str)
             IN  IF json_dict.ok
                 THEN [ok |-> TRUE, code |-> permission_code_clean, attrs |-> json_dict.val]
                 ELSE [ok |-> FALSE, code |-> permission_code, attrs |-> NoneAttrs]

actions == <<"C", "R", "U", "D">>
domain == "0"
effect == "allow"

\* DirectCondition testing the relationship qualifier before the ownership one
DirectCondition_star_first(permission_code, action) ==
    IF Contains(<<action, "*">>, permission_code) THEN "check_relationship"
    ELSE IF Contains(<<action, "O">>, permission_code) THEN "check_ownership"
    ELSE "none"

\* condition of the direct policy of an action
DirectCondition(permission_code, action) ==
    IF Contains(<<action, "O">>, permission_code) THEN "check_ownership"
    ELSE IF Contains(<<action, "*">>, permission_code) THEN "check_relationship"
    ELSE "none"

\* whether the meaningless-code line is printed for an action
GrantMeaningless(permission_code, action) ==
    Contains(<<"G", action, "O">>, permission_code)

\* Grant testing "GX*" before "GXO"
Grant_star_first(permission_code, action) ==
    IF Contains(<<"G", action, "*">>, permission_code) THEN TRUE
    ELSE IF Contains(<<"G", action, "O">>, permission_code) THEN FALSE
    ELSE IF Contains(<<"G", action>>, permission_code) THEN TRUE
    ELSE FALSE

\* the grant flag of an action
Grant(permission_code, action) ==
    IF Contains(<<"G", action, "O">>, permission_code) THEN FALSE
    ELSE IF Contains(<<"G", action, "*">>, permission_code) THEN TRUE
    ELSE IF Contains(<<"G", action>>, permission_code) THEN TRUE
    ELSE FALSE

\* condition of the grant policy of an action
GrantCondition(permission_code, action) ==
    IF Contains(<<"G", action, "O">>, permission_code) THEN "none"
    ELSE IF Contains(<<"G", action, "*">>, permission_code) THEN "check_relationship"
    ELSE "none"

MeaninglessLine(permission_code, table, role) ==
    [line |-> "Meaningless code", permission_code |-> permission_code,
     table |-> table, role |-> role]

RECURSIVE ActionLoop(_, _, _, _, _, _)
\* the for loop from its i-th action on
ActionLoop(i, permission_code, attrs, table, role, acc) ==
    IF i > Len(actions) THEN acc
    ELSE LET action == actions[i]
         IN  IF ~Contains(<<action>>, permission_code)
             THEN ActionLoop(i + 1, permission_code, attrs, table, role, acc)
             ELSE LET direct == <<role, domain, table, <<action>>,
                                  DirectCondition(permission_code, action), attrs, effect>>
                      granted == <<role, domain, table, <<"G", action>>,
                                   GrantCondition(permission_code, action), attrs, effect>>
                      policies1 == Append(acc.policies, direct)
                      policies2 == IF Grant(permission_code, action)
                                   THEN Append(policies1, granted)
                                   ELSE policies1
                      lines == IF GrantMeaningless(permission_code, action)
                               THEN Append(acc.lines,
                                           MeaninglessLine(permission_code, table, role))
                               ELSE acc.lines
                  IN  ActionLoop(i + 1, permission_code, attrs, table, role,
                                 [policies |-> policies2, lines |-> lines])

\* ok = FALSE stands for the ValueError leaving the function
permission_to_policy_actions_and_conditions(permission_code, table, role) ==
    LET parsed == parse_json_from_permission_code(permission_code)
    IN  IF ~parsed.ok
        THEN [ok |-> FALSE, policies |-> <<>>, lines |-> <<>>]
        ELSE LET done == ActionLoop(1, parsed.code, parsed.attrs, table, role,
                                    [policies |-> <<>>, lines |-> <<>>])
             IN  [ok |-> TRUE, policies |-> done.policies, lines |-> done.lines]

-----------------------------------------------------------------------------
(* Inputs of the decoder *)

Alphabet == {"C", "R", "U", "D", "G", "O", "*"}
GrantAlphabet == {"C", "G", "O", "*"}


P_Empty == <<"{", "}">>
P_Flags == <<"{", "\"", "G", "C", "*", "\"", ":", "\"", "C", "O", "\"", "}">>
P_Spaced == <<"{", " ", "\"", "R", "\"", " ", ":", " ", "\"", "U", "\"", " ", ",", " ", "\"", "R", "\"", " ", ":", " ", "\"", "O", "\"", " ", "}", " ">>
P_Nested == <<"{", "\"", "D", "\"", ":", "{", "\"", "U", "\"", ":", "\"", "*", "\"", "}", ",", "\"", "C", "\"", ":", "\"", "\"", "}">>
P_Open == <<"{">>
P_Bare == <<"{", "C", "}">>
P_Extra == <<"{", "}", "{", "\"", "C", "\"", ":", "\"", "O", "\"", "}">>
P_Comma == <<"{", "\"", "C", "\"", ":", "\"", "O", "\"", ",", "}">>
P_NoValue == <<"{", "\"", "G", "C", "\"", "}">>

WellFormedPayloads == {P_Empty, P_Flags, P_Spaced, P_Nested}
MalformedPayloads == {P_Open, P_Bare, P_Extra, P_Comma, P_NoValue}
Payloads == {<<>>} \cup WellFormedPayloads \cup MalformedPayloads

\* whether a payload is combined with a base code
Combined(b, p) == p = <<>> \/ Len(b) <= MaxPayloadBaseLen

TableNames == {<<"t", "1">>, <<"t", "2">>}
RoleNames == {<<"a">>, <<"b">>}

-----------------------------------------------------------------------------
(* Inputs of the compiler *)

H_Tables == <<"T", "a", "b", "l", "e", "s">>
MetaHeaders == <<<<"I", "d">>, H_Tables, <<"N", "o", "t", "e">>>>
NumMetaCols == 3

RoleHeaderChoices ==
    { <<<<"a">>>>,
      <<<<"a">>, <<"b">>>>,
      <<<<"a", " ">>, <<" ", "b">>>>,
      <<<<"a">>, <<" ", "a">>>> }

T_Blank == <<" ">>
T_Valid == <<" ", "G", "C", "*", "G", "D", "O", " ">>
T_Broken == <<"C", "{">>
T_Attrs == <<"U", "*", "{", "\"", "R", "\"", ":", "\"", "O", "\"", "}", " ">>
CellTexts == {<<>>, T_Blank, T_Valid, T_Attrs, T_Broken}

MetaText == <<"x">>

\* an input file: a header line and the lines of fields
File(h, t, cells) ==
    [header |-> MetaHeaders \o h,
     lines |-> [i \in 1..Len(t) |-> <<MetaText, t[i], MetaText>> \o cells[i]]]

-----------------------------------------------------------------------------
(* pandas *)

NaN == [t |-> "float", v |-> <<"n", "a", "n">>]

\* the value pd.read_csv gives a field: an empty field is missing (NaN)
read_field(text) == IF text = <<>> THEN NaN ELSE [t |-> "str", v |-> text]

\* pd.read_csv(input_csv_path, sep=';')
read_csv(file) ==
    [columns |-> file.header,
     rows |-> [i \in 1..Len(file.lines) |->
                 [k \in 1..Len(file.lines[i]) |-> read_field(file.lines[i][k])]]]

\* list.extend(items) putting the items in front
extend_front(list, items) == items \o list

\* list.extend(items)
extend(list, items) == list \o items

\* row[label]; 0 stands for KeyError
Lookup(columns, label) == Index(columns, label)

-----------------------------------------------------------------------------
(* State machine of one call of the decoder *)

NoCall == [permission_code |-> <<>>, table |-> <<>>, role |-> <<>>]
NoRet == [status |-> "none", policies |-> <<>>, lines |-> <<>>]
NoFrame == [columns |-> <<>>, rows |-> <<>>]

\* a call on the base code b, with or without a payload
CallOn(b) ==
    \E p \in Payloads, t \in TableNames, a \in RoleNames :
        /\ Combined(b, p)
        /\ call = [permission_code |-> b \o p, table |-> t, role |-> a]

InitResolve ==
    /\ \/ \E k \in 0..MaxCodeLen : \E b \in [1..k -> Alphabet] : CallOn(b)
       \/ \E k \in 0..MaxGrantLen : \E b \in [1..k -> GrantAlphabet] : CallOn(b)
    /\ ret = NoRet
    /\ pc = "call"
    /\ roles_df = NoFrame
    /\ roles_corrected = <<>>
    /\ r = 0
    /\ c = 0
    /\ policies_with_conditions = <<>>
    /\ origin = <<>>
    /\ printed = <<>>
    /\ policy_csv = <<>>
    /\ written = FALSE
    /\ err = "none"

Resolve ==
    /\ pc = "call"
    /\ LET res == permission_to_policy_actions_and_conditions(
                      call.permission_code, call.table, call.role)
       IN  /\ ret' = [status |-> IF res.ok THEN "returned" ELSE "ValueError",
                      policies |-> res.policies, lines |-> res.lines]
           /\ pc' = IF res.ok THEN "returned" ELSE "raised"
           /\ printed' = printed \o res.lines
    /\ UNCHANGED <<call, roles_df, roles_corrected, r, c, policies_with_conditions,
                   origin, policy_csv, written, err>>

NextResolve == Resolve

SpecResolve == InitResolve /\ [][NextResolve]_vars

-----------------------------------------------------------------------------
(* State machine of generate_policies_csv *)

Init ==
    /\ \E h \in RoleHeaderChoices, n \in 1..MaxRows :
          \E t \in [1..n -> TableNames], cells \in [1..n -> [1..Len(h) -> CellTexts]] :
             roles_df = read_csv(File(h, t, cells))
    /\ roles_corrected = <<>>
    /\ r = 0
    /\ c = 0
    /\ policies_with_conditions = <<>>
    /\ origin = <<>>
    /\ printed = <<>>
    /\ policy_csv = <<>>
    /\ written = FALSE
    /\ pc = "roles"
    /\ err = "none"
    /\ call = NoCall
    /\ ret = NoRet

\* roles_corrected = [role.strip() for role in roles_df.columns[3:]]
CorrectRoles ==
    /\ pc = "roles"
    /\ roles_corrected' =
          [k \in 1..(Len(roles_df.columns) - NumMetaCols) |->
              strip(roles_df.columns[k + NumMetaCols])]
    /\ r' = 1
    /\ c' = 1
    /\ pc' = IF Len(roles_df.rows) = 0 THEN "save" ELSE "loop"
    /\ UNCHANGED <<call, ret, roles_df, policies_with_conditions, origin, printed,
                   policy_csv, written, err>>

Raise(exception) ==
    /\ pc' = "raised"
    /\ err' = exception
    /\ UNCHANGED <<policies_with_conditions, origin, printed, r, c>>

\* the body of the inner loop for row r and role roles_corrected[c]
ProcessCell ==
    /\ pc = "loop"
    /\ LET row == roles_df.rows[r]
           tables == Lookup(roles_df.columns, H_Tables)
           role == roles_corrected[c]
           column == Lookup(roles_df.columns, role)
       IN  IF tables = 0 \/ column = 0 THEN Raise("KeyError")
           ELSE IF row[column].t # "str" THEN Raise("AttributeError")
           ELSE LET table == row[tables].v
                    permission_code == strip(row[column].v)
                    res == permission_to_policy_actions_and_conditions(
                               permission_code, table, role)
                    last == c = Len(roles_corrected)
                IN  IF ~res.ok THEN Raise("ValueError")
                    ELSE /\ policies_with_conditions' =
                                extend(policies_with_conditions, res.policies)
                         /\ origin' = extend(origin,
                                             [k \in 1..Len(res.policies) |-> <<r, c>>])
                         /\ printed' = printed \o res.lines
                         /\ c' = IF last THEN 1 ELSE c + 1
                         /\ r' = IF last THEN r + 1 ELSE r
                         /\ pc' = IF last /\ r = Len(roles_df.rows) THEN "save" ELSE "loop"
                         /\ err' = err
    /\ UNCHANGED <<call, ret, roles_df, roles_corrected, policy_csv, written>>

\* policies_df.to_csv(output_csv_path, sep=';', index=False) and the final print
Save ==
    /\ pc = "save"
    /\ policy_csv' = policies_with_conditions
    /\ written' = TRUE
    /\ printed' = Append(printed, [line |-> "Policy CSV generated"])
    /\ pc' = "done"
    /\ UNCHANGED <<call, ret, roles_df, roles_corrected, r, c,
                   policies_with_conditions, origin, err>>

Next == CorrectRoles \/ ProcessCell \/ Save

Spec == Init /\ [][Next]_vars

-----------------------------------------------------------------------------
(* Vocabulary of the properties *)

\* sub occurs in s
Occurs(sub, s) ==
    \E i \in 0..(Len(s) - Len(sub)) : \A j \in 1..Len(sub) : s[i + j] = sub[j]

HasBrace(code) == \E i \in 1..Len(code) : code[i] = "{"

FirstBrace(code) ==
    CHOOSE i \in 1..Len(code) : code[i] = "{" /\ ~\E j \in 1..(i - 1) : code[j] = "{"

\* the text before the first '{'
BaseOf(code) == IF HasBrace(code) THEN SubSeq(code, 1, FirstBrace(code) - 1) ELSE code

\* the text from the first '{' to the end
PayloadOf(code) == SubSeq(code, FirstBrace(code), Len(code))

\* the (action, condition) pairs of a list of policy tuples
ActCond(policies) == [k \in 1..Len(policies) |-> <<policies[k][4], policies[k][5]>>]

ActionLetters == {"C", "R", "U", "D"}

\* positions of the entries of a list that carry an action
EntriesOf(policies, action) == {k \in 1..Len(policies) : policies[k][4] = action}

Returned == pc = "returned"

-----------------------------------------------------------------------------
(* Properties of the decoder, checked under SpecResolve *)

\* C1: resolving the base code "GC*" yields exactly a direct entry (C, none)
\* followed by a grant entry (GC, check_relationship).
C1_GrantCreateStar ==
    (Returned /\ BaseOf(call.permission_code) = <<"G", "C", "*">>)
        => ActCond(ret.policies) =
              << << <<"C">>, "none" >>, << <<"G", "C">>, "check_relationship" >> >>

\* C2: resolving the base code "GCO" yields exactly one entry, the direct entry
\* (C, none), no grant entry, and exactly one meaningless-grant diagnostic.
C2_GrantCreateOwnership ==
    (Returned /\ BaseOf(call.permission_code) = <<"G", "C", "O">>)
        => /\ ActCond(ret.policies) = << << <<"C">>, "none" >> >>
           /\ Len(ret.lines) = 1

\* C6: every policy tuple of one code carries the same attributes: the mapping
\* parsed from the text running from the first '{' to the end of the code, or
\* the str "none" when the code has no '{'.
C6_SharedAttributes ==
    Returned =>
        LET code == call.permission_code
        IN  /\ \A j, k \in 1..Len(ret.policies) : ret.policies[j][6] = ret.policies[k][6]
            /\ ~HasBrace(code) => \A k \in 1..Len(ret.policies) :
                                      ret.policies[k][6] = NoneAttrs
            /\ HasBrace(code) =>
                  /\ json_loads(PayloadOf(code)).ok
                  /\ \A k \in 1..Len(ret.policies) :
                        ret.policies[k][6] = json_loads(PayloadOf(code)).val

\* a direct and a grant entry sharing a parsed, non-empty mapping
C6_Witness ==
    /\ Returned
    /\ HasBrace(call.permission_code)
    /\ Len(ret.policies) >= 2
    /\ \E j, k \in 1..Len(ret.policies) :
          /\ Len(ret.policies[j][4]) = 1
          /\ Len(ret.policies[k][4]) = 2
          /\ ret.policies[j][6].t = "obj"
          /\ Len(ret.policies[j][6].v) > 0

\* C7: for every action letter X occurring in the base code there is exactly
\* one direct entry, whose condition is check_ownership if "XO" occurs,
\* otherwise check_relationship if "X*" occurs, otherwise none; a letter that
\* does not occur has no direct entry.
C7_DirectCondition ==
    Returned =>
        LET base == BaseOf(call.permission_code)
        IN  \A X \in ActionLetters :
               LET direct == EntriesOf(ret.policies, <<X>>)
               IN  IF Occurs(<<X>>, base)
                   THEN /\ Cardinality(direct) = 1
                        /\ \A k \in direct :
                              ret.policies[k][5] =
                                 IF Occurs(<<X, "O">>, base) THEN "check_ownership"
                                 ELSE IF Occurs(<<X, "*">>, base) THEN "check_relationship"
                                 ELSE "none"
                   ELSE direct = {}

\* a code holding both "C*" and "CO", the letter C more than once
C7_Witness ==
    /\ Returned
    /\ Occurs(<<"C", "*">>, BaseOf(call.permission_code))
    /\ Occurs(<<"C", "O">>, BaseOf(call.permission_code))
    /\ \E k \in 1..Len(ret.policies) :
          ret.policies[k][4] = <<"C">> /\ ret.policies[k][5] = "check_ownership"

\* C8: if "GXO" occurs in the base code no grant entry GX is produced and a
\* diagnostic is printed without the call failing; otherwise one grant entry GX
\* is produced with check_relationship if "GX*" occurs, with none if only "GX"
\* occurs, and none is produced if "GX" does not occur. No grant entry has the
\* condition check_ownership.
C8_GrantCondition ==
    /\ pc = "raised" => /\ HasBrace(call.permission_code)
                        /\ ~json_loads(PayloadOf(call.permission_code)).ok
    /\ Returned =>
        LET base == BaseOf(call.permission_code)
        IN  /\ \A X \in ActionLetters :
                  LET grants == EntriesOf(ret.policies, <<"G", X>>)
                  IN  IF Occurs(<<"G", X, "O">>, base)
                      THEN /\ grants = {}
                           /\ \E k \in 1..Len(ret.lines) :
                                 ret.lines[k].line = "Meaningless code"
                      ELSE IF Occurs(<<"G", X, "*">>, base)
                      THEN /\ Cardinality(grants) = 1
                           /\ \A k \in grants : ret.policies[k][5] = "check_relationship"
                      ELSE IF Occurs(<<"G", X>>, base)
                      THEN /\ Cardinality(grants) = 1
                           /\ \A k \in grants : ret.policies[k][5] = "none"
                      ELSE grants = {}
            /\ Len(ret.lines) =
                  Cardinality({X \in ActionLetters : Occurs(<<"G", X, "O">>, base)})
            /\ \A k \in 1..Len(ret.policies) :
                  Len(ret.policies[k][4]) = 2 => ret.policies[k][5] # "check_ownership"

\* a code holding "GCO" and also "GC*": no GC entry, one diagnostic
C8_Witness ==
    /\ Returned
    /\ Occurs(<<"G", "C", "O">>, BaseOf(call.permission_code))
    /\ Occurs(<<"G", "C", "*">>, BaseOf(call.permission_code))
    /\ EntriesOf(ret.policies, <<"G", "C">>) = {}
    /\ Len(ret.lines) = 1

\* C10: for every code with a well-formed payload, the (action, condition)
\* sequence of the whole code equals that of its prefix before the first '{'.
C10_PayloadInert ==
    (pc # "call" /\ HasBrace(call.permission_code)
                 /\ json_loads(PayloadOf(call.permission_code)).ok)
        => /\ Returned
           /\ ActCond(ret.policies) =
                 ActCond(permission_to_policy_actions_and_conditions(
                             BaseOf(call.permission_code), call.table, call.role).policies)

\* a payload that spells "GC*" and "CO" behind the base code "C"
C10_Witness ==
    /\ Returned
    /\ call.permission_code = <<"C">> \o P_Flags
    /\ ActCond(ret.policies) = << << <<"C">>, "none" >> >>

-----------------------------------------------------------------------------
(* Properties of the compiler, checked under Spec *)

RoleColumns == (NumMetaCols + 1)..Len(roles_df.columns)
RoleIndexes == 1..(Len(roles_df.columns) - NumMetaCols)
RowIndexes == 1..Len(roles_df.rows)

\* the cell of row i in the column of the k-th role
CellOf(i, k) == roles_df.rows[i][k + NumMetaCols]

\* an empty cell, or one holding only whitespace
Blank(v) == v = NaN \/ (v.t = "str" /\ strip(v.v) = <<>>)

\* a cell with a '{' whose suffix is not a well-formed object
Malformed(v) == v.t = "str" /\ HasBrace(v.v) /\ ~json_loads(PayloadOf(v.v)).ok

\* C3: an empty or whitespace-only cell contributes no policy tuple for its
\* (row, role) pair and does not make the compile fail.
C3_BlankCell ==
    pc # "roles" =>
        \A i \in RowIndexes, k \in RoleIndexes :
            Blank(CellOf(i, k)) =>
                /\ ~(pc = "raised" /\ r = i /\ c = k /\ err # "KeyError")
                /\ ~\E n \in 1..Len(origin) : origin[n] = <<i, k>>

\* C4: if any cell of the matrix holds a '{' whose suffix is not a well-formed
\* object the output file is never written; the file is written only after
\* every cell has been resolved.
C4_AllOrNothing ==
    /\ (\E i \in RowIndexes, k \in RoleIndexes : Malformed(CellOf(i, k)))
          => ~written /\ pc \notin {"save", "done"}
    /\ written => pc = "done" /\ r > Len(roles_df.rows)

\* C9: when role headers carry surrounding whitespace the compile does not fail
\* on them: the role list is the trimmed headers of the columns from index 3
\* on, and each role's cells are read from that role's column.
C9_TrimmedHeaders ==
    (pc # "roles" /\ \E k \in RoleColumns :
                        strip(roles_df.columns[k]) # roles_df.columns[k])
        => /\ roles_corrected =
                 [k \in RoleIndexes |-> strip(roles_df.columns[k + NumMetaCols])]
           /\ \A k \in RoleIndexes :
                 Lookup(roles_df.columns, roles_corrected[k]) = k + NumMetaCols
           /\ err # "KeyError"

ActionPos(letter) ==
    CASE letter = "C" -> 1 [] letter = "R" -> 2 [] letter = "U" -> 3 [] letter = "D" -> 4

\* (row, role index, action position, 0 for direct and 1 for grant) of the n-th tuple
KeyOf(n) ==
    LET action == policies_with_conditions[n][4]
    IN  <<origin[n][1], origin[n][2], ActionPos(action[Len(action)]), Len(action) - 1>>

KeyLess(a, b) ==
    \E m \in 1..4 : a[m] < b[m] /\ \A l \in 1..(m - 1) : a[l] = b[l]

IsPrefix(s, t) == Len(s) <= Len(t) /\ SubSeq(t, 1, Len(s)) = s

EmissionOrdered ==
    /\ Len(origin) = Len(policies_with_conditions)
    /\ \A n \in 1..Len(policies_with_conditions) :
          /\ origin[n][1] \in RowIndexes /\ origin[n][2] \in RoleIndexes
          /\ policies_with_conditions[n][1] = roles_corrected[origin[n][2]]
          /\ policies_with_conditions[n][3] =
                roles_df.rows[origin[n][1]][Lookup(roles_df.columns, H_Tables)].v
    /\ \A m, n \in 1..Len(policies_with_conditions) : m < n => KeyLess(KeyOf(m), KeyOf(n))
    /\ written => policy_csv = policies_with_conditions

\* C5: the accumulated list only grows by appending, and it is ordered by
\* (row index, role index, action position in C,R,U,D, direct before grant):
\* of any two tuples the earlier has the smaller key; the file holds that list.
C5_EmissionOrder ==
    /\ []EmissionOrdered
    /\ [][IsPrefix(policies_with_conditions, policies_with_conditions')]_vars

\* a written file with tuples of two rows, of two roles of one row, and a
\* direct entry followed by its grant entry
C5_Witness ==
    /\ written
    /\ \E m, n \in 1..Len(policy_csv) : origin[m][1] < origin[n][1]
    /\ \E m, n \in 1..Len(policy_csv) :
          origin[m][1] = origin[n][1] /\ origin[m][2] < origin[n][2]
    /\ \E n \in 1..(Len(policy_csv) - 1) :
          /\ origin[n] = origin[n + 1]
          /\ policy_csv[n][4] = <<"C">>
          /\ policy_csv[n + 1][4] = <<"G", "C">>

====
